---- MODULE Spec2Model ----
(***************************************************************************)
(* Model of cpp_samples/sample.cpp: main() builds a vector of ints, a lazy *)
(* transform view (square) over it and a lazy filter view (is even) over   *)
(* the transform view, and prints both views with range-based for loops.   *)
(*                                                                         *)
(* The views are modelled by the iterator operations the two for loops     *)
(* perform (begin, != end, operator*, operator++), the stream by the       *)
(* characters it receives, int by its 32-bit width.                        *)
(***************************************************************************)
EXTENDS Integers, Sequences, FiniteSets, TLC

VARIABLES
    pc,           \* position in main
    numbers,      \* std::vector<int> numbers
    built,        \* the view objects constructed so far
    out,          \* characters written to std::cout, in order
    pend,         \* characters of the current operator<< not yet written
    n,            \* the loop variable `auto n`
    it,           \* first loop: transform_view iterator (index into numbers)
    fit,          \* second loop: filter_view iterator's current position
    ffirst,       \* find_if cursor inside filter_view::begin / operator++
    fval,         \* value find_if read from the transform iterator
    fret,         \* who called find_if: "begin" or "incr"
    begin_cache,  \* filter_view's cached begin (0: not cached)
    sqLog,        \* history: every application of square, in order
    predLog,      \* history: every application of the filter predicate
    y1,           \* history: values the first loop received
    y2,           \* history: values the second loop received
    status        \* <<>> while main runs, <<c>> once it returned c

vars == <<pc, numbers, built, out, pend, n, it, fit, ffirst, fval, fret,
          begin_cache, sqLog, predLog, y1, y2, status>>

-----------------------------------------------------------------------------
(* Bounds of the generic-input specification. *)

MaxLen == 3

\* Elements of the generic inputs: small values of both signs and parities,
\* and the values around the largest int whose square still fits in an int.
Vals == {-2, -1, 0, 1, 2, 46340, 46341, 46342}

AllInputs == UNION {[1..k -> Vals] : k \in 0..MaxLen}

-----------------------------------------------------------------------------
(* int *)

INT_MAX == 2147483647

Abs(x) == IF x < 0 THEN -x ELSE x

\* x * x is not representable in int (signed overflow: undefined behaviour)
MulOverflows(x) == x # 0 /\ Abs(x) > INT_MAX \div Abs(x)

\* The low 32 bits of x * x as a two's complement int, computed in 16-bit
\* limbs: what the multiply instruction leaves when the product overflows.
WrapSquare(x) ==
    LET a  == Abs(x) \div 65536
        b  == Abs(x) % 65536
        c  == b \div 256
        d  == b % 256
        t  == 2 * c * d * 256 + d * d
        lo == t % 65536
        hi == (((a * b) % 32768) * 2 + c * c + t \div 65536) % 65536
    IN  IF hi >= 32768 THEN (hi - 65536) * 65536 + lo ELSE hi * 65536 + lo

-----------------------------------------------------------------------------
(* The two lambdas. *)

\* variant: doubles instead of squaring
squareDoubles(x) == x + x

\* auto square = [](Number auto n) { return n * n; };
square(x) == IF MulOverflows(x) THEN WrapSquare(x) ELSE x * x

\* C++ % truncates toward zero: the remainder has the sign of the dividend.
Rem(x, m) == IF x >= 0 THEN x % m ELSE -((-x) % m)

\* variant: keeps the odd values
is_evenInverted(x) == Rem(x, 2) = 1

\* [](int n) { return n % 2 == 0; }
is_even(x) == Rem(x, 2) = 0

-----------------------------------------------------------------------------
(* std::cout *)

Label1 == <<"S", "q", "u", "a", "r", "e", "d", " ", "N", "u", "m", "b", "e", "r", "s", ":", " ">>
Label2 == <<"E", "v", "e", "n", " ", "S", "q", "u", "a", "r", "e", "d", " ", "N", "u", "m", "b", "e", "r", "s", ":", " ">>

DigitChar == <<"0", "1", "2", "3", "4", "5", "6", "7", "8", "9">>

RECURSIVE Digits(_)
Digits(m) == IF m < 10 THEN <<DigitChar[m + 1]>>
             ELSE Digits(m \div 10) \o <<DigitChar[(m % 10) + 1]>>

\* operator<<(int): decimal text, '-' first when negative
ToDecimal(x) == IF x < 0 THEN <<"-">> \o Digits(-x) ELSE Digits(x)

\* the previous operator<< has written all its characters
Ready == pend = <<>>

-----------------------------------------------------------------------------
(* Initial states. *)

InitRest ==
    /\ pc = "L19"
    /\ built = {}
    /\ out = <<>>
    /\ pend = <<>>
    /\ n = 0
    /\ it = 0
    /\ fit = 0
    /\ ffirst = 0
    /\ fval = 0
    /\ fret = "none"
    /\ begin_cache = 0
    /\ sqLog = <<>>
    /\ predLog = <<>>
    /\ y1 = <<>>
    /\ y2 = <<>>
    /\ status = <<>>

\* std::vector<int> numbers = {1, 2, 3, 4, 5};
Init ==
    /\ numbers = <<1, 2, 3, 4, 5>>
    /\ InitRest

\* the same program over any input vector within the bounds
InitGen ==
    /\ numbers \in AllInputs
    /\ InitRest

-----------------------------------------------------------------------------
(* The stream writes the characters of the current operator<< one by one. *)

WriteChar ==
    /\ pend # <<>>
    /\ out' = Append(out, Head(pend))
    /\ pend' = Tail(pend)
    /\ UNCHANGED <<pc, numbers, built, n, it, fit, ffirst, fval, fret,
                   begin_cache, sqLog, predLog, y1, y2, status>>

-----------------------------------------------------------------------------
(* Lines 19-26: the transform view and the first print loop. *)

\* variant: an eager transform that applies square to every element when
\* the view is built
MakeSquaredEager ==
    /\ pc = "L19"
    /\ built' = built \cup {"squared_numbers"}
    /\ sqLog' = sqLog \o [k \in 1..Len(numbers) |-> [site |-> "loop1", i |-> k]]
    /\ pc' = "L22"
    /\ UNCHANGED <<numbers, out, pend, n, it, fit, ffirst, fval, fret,
                   begin_cache, predLog, y1, y2, status>>

\* auto squared_numbers = numbers | std::views::transform(square);
\* builds the view object: a reference to numbers and the function.
MakeSquared ==
    /\ pc = "L19"
    /\ built' = built \cup {"squared_numbers"}
    /\ pc' = "L22"
    /\ UNCHANGED <<numbers, out, pend, n, it, fit, ffirst, fval, fret,
                   begin_cache, sqLog, predLog, y1, y2, status>>

\* std::cout << "Squared Numbers: ";
PrintLabel1 ==
    /\ pc = "L22"
    /\ pend' = Label1
    /\ pc' = "L23_begin"
    /\ UNCHANGED <<numbers, built, out, n, it, fit, ffirst, fval, fret,
                   begin_cache, sqLog, predLog, y1, y2, status>>

\* for (auto n : squared_numbers): __begin = squared_numbers.begin()
Loop1Begin ==
    /\ pc = "L23_begin"
    /\ Ready
    /\ it' = 1
    /\ pc' = "L23_test"
    /\ UNCHANGED <<numbers, built, out, pend, n, fit, ffirst, fval, fret,
                   begin_cache, sqLog, predLog, y1, y2, status>>

\* variant: the loop stops one element early
Loop1TestOffByOne ==
    /\ pc = "L23_test"
    /\ pc' = IF it < Len(numbers) THEN "L23_deref" ELSE "L26"
    /\ UNCHANGED <<numbers, built, out, pend, n, it, fit, ffirst, fval, fret,
                   begin_cache, sqLog, predLog, y1, y2, status>>

\* __begin != __end
Loop1Test ==
    /\ pc = "L23_test"
    /\ pc' = IF it <= Len(numbers) THEN "L23_deref" ELSE "L26"
    /\ UNCHANGED <<numbers, built, out, pend, n, it, fit, ffirst, fval, fret,
                   begin_cache, sqLog, predLog, y1, y2, status>>

\* variant: a transform that stores the square back into the vector
Loop1DerefInPlace ==
    /\ pc = "L23_deref"
    /\ n' = square(numbers[it])
    /\ numbers' = [numbers EXCEPT ![it] = n']
    /\ sqLog' = Append(sqLog, [site |-> "loop1", i |-> it])
    /\ y1' = Append(y1, n')
    /\ pc' = "L24_n"
    /\ UNCHANGED <<built, out, pend, it, fit, ffirst, fval, fret,
                   begin_cache, predLog, y2, status>>

\* auto n = *__begin: the transform iterator applies square to the element
Loop1Deref ==
    /\ pc = "L23_deref"
    /\ n' = square(numbers[it])
    /\ sqLog' = Append(sqLog, [site |-> "loop1", i |-> it])
    /\ y1' = Append(y1, n')
    /\ pc' = "L24_n"
    /\ UNCHANGED <<numbers, built, out, pend, it, fit, ffirst, fval, fret,
                   begin_cache, predLog, y2, status>>

\* std::cout << n
PrintN1 ==
    /\ pc = "L24_n"
    /\ pend' = ToDecimal(n)
    /\ pc' = "L24_sp"
    /\ UNCHANGED <<numbers, built, out, n, it, fit, ffirst, fval, fret,
                   begin_cache, sqLog, predLog, y1, y2, status>>

\* variant: the space is a separator, not written after the last element
PrintSp1Separator ==
    /\ pc = "L24_sp"
    /\ Ready
    /\ pend' = IF it < Len(numbers) THEN <<" ">> ELSE <<>>
    /\ pc' = "L23_incr"
    /\ UNCHANGED <<numbers, built, out, n, it, fit, ffirst, fval, fret,
                   begin_cache, sqLog, predLog, y1, y2, status>>

\* << ' '
PrintSp1 ==
    /\ pc = "L24_sp"
    /\ Ready
    /\ pend' = <<" ">>
    /\ pc' = "L23_incr"
    /\ UNCHANGED <<numbers, built, out, n, it, fit, ffirst, fval, fret,
                   begin_cache, sqLog, predLog, y1, y2, status>>

\* ++__begin
Loop1Incr ==
    /\ pc = "L23_incr"
    /\ Ready
    /\ it' = it + 1
    /\ pc' = "L23_test"
    /\ UNCHANGED <<numbers, built, out, pend, n, fit, ffirst, fval, fret,
                   begin_cache, sqLog, predLog, y1, y2, status>>

\* std::cout << '\n';
Newline1 ==
    /\ pc = "L26"
    /\ pend' = <<"\n">>
    /\ pc' = "L28"
    /\ UNCHANGED <<numbers, built, out, n, it, fit, ffirst, fval, fret,
                   begin_cache, sqLog, predLog, y1, y2, status>>

-----------------------------------------------------------------------------
(* Lines 28-37: the filter view and the second print loop. *)

\* auto even_squared_numbers = squared_numbers | std::views::filter(...);
\* builds the view object: a copy of the transform view and the predicate.
MakeEven ==
    /\ pc = "L28"
    /\ Ready
    /\ built' = built \cup {"even_squared_numbers"}
    /\ pc' = "L33"
    /\ UNCHANGED <<numbers, out, pend, n, it, fit, ffirst, fval, fret,
                   begin_cache, sqLog, predLog, y1, y2, status>>

\* std::cout << "Even Squared Numbers: ";
PrintLabel2 ==
    /\ pc = "L33"
    /\ pend' = Label2
    /\ pc' = "L34_begin"
    /\ UNCHANGED <<numbers, built, out, n, it, fit, ffirst, fval, fret,
                   begin_cache, sqLog, predLog, y1, y2, status>>

\* variant: begin() hands out the first position without testing it
Loop2BeginUnfiltered ==
    /\ pc = "L34_begin"
    /\ Ready
    /\ fit' = 1
    /\ pc' = "L34_test"
    /\ UNCHANGED <<numbers, built, out, pend, n, it, ffirst, fval, fret,
                   begin_cache, sqLog, predLog, y1, y2, status>>

\* for (auto n : even_squared_numbers): filter_view::begin() returns the
\* cached iterator if there is one, else runs find_if from the start.
Loop2Begin ==
    /\ pc = "L34_begin"
    /\ Ready
    /\ IF begin_cache # 0
         THEN /\ fit' = begin_cache
              /\ pc' = "L34_test"
              /\ UNCHANGED <<ffirst, fret>>
         ELSE /\ ffirst' = 1
              /\ fret' = "begin"
              /\ pc' = "find_test"
              /\ UNCHANGED fit
    /\ UNCHANGED <<numbers, built, out, pend, n, it, fval,
                   begin_cache, sqLog, predLog, y1, y2, status>>

\* find_if: first != last
FindTest ==
    /\ pc = "find_test"
    /\ pc' = IF ffirst <= Len(numbers) THEN "find_deref" ELSE "find_done"
    /\ UNCHANGED <<numbers, built, out, pend, n, it, fit, ffirst, fval, fret,
                   begin_cache, sqLog, predLog, y1, y2, status>>

\* variant: a caching transform that hands find_if the value the first
\* pass computed
FindDerefCached ==
    /\ pc = "find_deref"
    /\ fval' = y1[ffirst]
    /\ pc' = "find_pred"
    /\ UNCHANGED <<numbers, built, out, pend, n, it, fit, ffirst, fret,
                   begin_cache, sqLog, predLog, y1, y2, status>>

\* find_if: *first, the transform iterator applies square to the element
FindDeref ==
    /\ pc = "find_deref"
    /\ fval' = square(numbers[ffirst])
    /\ sqLog' = Append(sqLog, [site |-> "find_if", i |-> ffirst])
    /\ pc' = "find_pred"
    /\ UNCHANGED <<numbers, built, out, pend, n, it, fit, ffirst, fret,
                   begin_cache, predLog, y1, y2, status>>

\* find_if: pred(*first); stop here if it holds, else ++first
FindPred ==
    /\ pc = "find_pred"
    /\ predLog' = Append(predLog, [i |-> ffirst, arg |-> fval])
    /\ IF is_even(fval)
         THEN /\ pc' = "find_done"
              /\ UNCHANGED ffirst
         ELSE /\ ffirst' = ffirst + 1
              /\ pc' = "find_test"
    /\ UNCHANGED <<numbers, built, out, pend, n, it, fit, fval, fret,
                   begin_cache, sqLog, y1, y2, status>>

\* find_if returns: the filter iterator takes the position found; begin()
\* also caches it.
FindDone ==
    /\ pc = "find_done"
    /\ fit' = ffirst
    /\ begin_cache' = IF fret = "begin" THEN ffirst ELSE begin_cache
    /\ pc' = "L34_test"
    /\ UNCHANGED <<numbers, built, out, pend, n, it, ffirst, fval, fret,
                   sqLog, predLog, y1, y2, status>>

\* __begin != __end
Loop2Test ==
    /\ pc = "L34_test"
    /\ pc' = IF fit <= Len(numbers) THEN "L34_deref" ELSE "L37"
    /\ UNCHANGED <<numbers, built, out, pend, n, it, fit, ffirst, fval, fret,
                   begin_cache, sqLog, predLog, y1, y2, status>>

\* auto n = *__begin: the filter iterator dereferences the transform
\* iterator it holds, which applies square to the element once more
Loop2Deref ==
    /\ pc = "L34_deref"
    /\ n' = square(numbers[fit])
    /\ sqLog' = Append(sqLog, [site |-> "loop2", i |-> fit])
    /\ y2' = Append(y2, n')
    /\ pc' = "L35_n"
    /\ UNCHANGED <<numbers, built, out, pend, it, fit, ffirst, fval, fret,
                   begin_cache, predLog, y1, status>>

\* std::cout << n
PrintN2 ==
    /\ pc = "L35_n"
    /\ pend' = ToDecimal(n)
    /\ pc' = "L35_sp"
    /\ UNCHANGED <<numbers, built, out, n, it, fit, ffirst, fval, fret,
                   begin_cache, sqLog, predLog, y1, y2, status>>

\* << ' '
PrintSp2 ==
    /\ pc = "L35_sp"
    /\ Ready
    /\ pend' = <<" ">>
    /\ pc' = "L34_incr"
    /\ UNCHANGED <<numbers, built, out, n, it, fit, ffirst, fval, fret,
                   begin_cache, sqLog, predLog, y1, y2, status>>

\* ++__begin: find_if from the next position
Loop2Incr ==
    /\ pc = "L34_incr"
    /\ Ready
    /\ ffirst' = fit + 1
    /\ fret' = "incr"
    /\ pc' = "find_test"
    /\ UNCHANGED <<numbers, built, out, pend, n, it, fit, fval,
                   begin_cache, sqLog, predLog, y1, y2, status>>

\* std::cout << '\n';
Newline2 ==
    /\ pc = "L37"
    /\ pend' = <<"\n">>
    /\ pc' = "L39"
    /\ UNCHANGED <<numbers, built, out, n, it, fit, ffirst, fval, fret,
                   begin_cache, sqLog, predLog, y1, y2, status>>

\* variant: main reports failure
ReturnNonZero ==
    /\ pc = "L39"
    /\ Ready
    /\ status' = <<1>>
    /\ pc' = "exit"
    /\ UNCHANGED <<numbers, built, out, pend, n, it, fit, ffirst, fval, fret,
                   begin_cache, sqLog, predLog, y1, y2>>

\* return 0;
Return ==
    /\ pc = "L39"
    /\ Ready
    /\ status' = <<0>>
    /\ pc' = "exit"
    /\ UNCHANGED <<numbers, built, out, pend, n, it, fit, ffirst, fval, fret,
                   begin_cache, sqLog, predLog, y1, y2>>

-----------------------------------------------------------------------------
(* Signed overflow in n * n is undefined behaviour: besides leaving the    *)
(* wrapped product (square above), a build may trap at the multiplication, *)
(* which ends the process without an exit status from main.                *)

DerefElem ==
    CASE pc = "L23_deref"  -> numbers[it]
      [] pc = "find_deref" -> numbers[ffirst]
      [] pc = "L34_deref"  -> numbers[fit]

Trap ==
    /\ pc \in {"L23_deref", "find_deref", "L34_deref"}
    /\ MulOverflows(DerefElem)
    /\ pc' = "trap"
    /\ UNCHANGED <<numbers, built, out, pend, n, it, fit, ffirst, fval, fret,
                   begin_cache, sqLog, predLog, y1, y2, status>>

-----------------------------------------------------------------------------

Next ==
    \/ WriteChar
    \/ MakeSquared
    \/ PrintLabel1
    \/ Loop1Begin
    \/ Loop1Test
    \/ Loop1Deref
    \/ PrintN1
    \/ PrintSp1
    \/ Loop1Incr
    \/ Newline1
    \/ MakeEven
    \/ PrintLabel2
    \/ Loop2Begin
    \/ FindTest
    \/ FindDeref
    \/ FindPred
    \/ FindDone
    \/ Loop2Test
    \/ Loop2Deref
    \/ PrintN2
    \/ PrintSp2
    \/ Loop2Incr
    \/ Newline2
    \/ Return

NextGen == Next \/ Trap

\* main on its literal input
Spec == Init /\ [][Next]_vars

\* main is one thread of straight-line code: it keeps taking steps
FairSpec == Init /\ [][Next]_vars /\ WF_vars(Next)

\* the pipeline on any input within the bounds
SpecGen == InitGen /\ [][NextGen]_vars

-----------------------------------------------------------------------------
(* Vocabulary of the properties. *)

IsPrefix(s, t) == Len(s) <= Len(t) /\ \A k \in 1..Len(s) : s[k] = t[k]

\* y is the mathematical product x * x (stated without forming a product
\* that may exceed the range of the integers at hand)
IsProduct(y, x) ==
    IF x = 0 THEN y = 0
    ELSE y >= 0 /\ y % Abs(x) = 0 /\ y \div Abs(x) = Abs(x)

\* divisible by 2 with no remainder
Even(x) == Abs(x) % 2 = 0

\* the subsequence of the even elements of s, in order of occurrence
RECURSIVE KeepEven(_)
KeepEven(s) ==
    IF s = <<>> THEN <<>>
    ELSE (IF Even(Head(s)) THEN <<Head(s)>> ELSE <<>>) \o KeepEven(Tail(s))

\* the first loop, resp. the second loop, has run to its end
PastLoop1 == pc \in {"L26", "L28", "L33", "L34_begin", "find_test",
                     "find_deref", "find_pred", "find_done", "L34_test",
                     "L34_deref", "L35_n", "L35_sp", "L34_incr", "L37",
                     "L39", "exit"}
PastLoop2 == pc \in {"L37", "L39", "exit"}

\* the output split at its first newline
NewlineAt == IF \E k \in 1..Len(out) : out[k] = "\n"
             THEN CHOOSE k \in 1..Len(out) :
                     out[k] = "\n" /\ \A j \in 1..(k - 1) : out[j] # "\n"
             ELSE 0
Line1 == IF NewlineAt = 0 THEN out ELSE SubSeq(out, 1, NewlineAt - 1)
Line2 == IF NewlineAt = 0 THEN <<>> ELSE SubSeq(out, NewlineAt + 1, Len(out))

\* elements completely written on a line: the spaces after its label
Spaces(s) == Cardinality({k \in 1..Len(s) : s[k] = " "})
ElemsOn(line, label) ==
    IF Len(line) <= Len(label) THEN 0
    ELSE Spaces(SubSeq(line, Len(label) + 1, Len(line)))
Printed1 == ElemsOn(Line1, Label1)
Printed2 == ElemsOn(Line2, Label2)

\* applications of square by call site, and the positions they were applied to
CallsAt(site) == SelectSeq(sqLog, LAMBDA c : c.site = site)
Positions(calls) == [k \in 1..Len(calls) |-> calls[k].i]
TimesApplied(S, pos) == Cardinality({k \in 1..Len(sqLog) :
                                       sqLog[k].site \in S /\ sqLog[k].i = pos})

\* the values the filter read from the squared sequence, in order
ReadByFilter == [k \in 1..Len(predLog) |-> predLog[k].arg]

ExpectedOutput ==
    <<"S", "q", "u", "a", "r", "e", "d", " ", "N", "u", "m", "b", "e", "r", "s", ":", " ", "1", " ", "4", " ", "9", " ", "1", "6", " ", "2", "5", " ", "\n">>
    \o <<"E", "v", "e", "n", " ", "S", "q", "u", "a", "r", "e", "d", " ", "N", "u", "m", "b", "e", "r", "s", ":", " ", "4", " ", "1", "6", " ", "\n">>

-----------------------------------------------------------------------------
\* C1: on {1,2,3,4,5} main writes exactly "Squared Numbers: 1 4 9 16 25 \n"
\* then "Even Squared Numbers: 4 16 \n" and nothing else: at every moment
\* the output is a prefix of that text (so no character of the second line
\* precedes the end of the first), and at exit it is the whole text.
C1_ExactOutput ==
    /\ IsPrefix(out, ExpectedOutput)
    /\ pc = "exit" => out = ExpectedOutput
    /\ Line2 # <<>> => Printed1 = Len(numbers)

C1_Witness == pc = "exit" /\ Len(out) = Len(ExpectedOutput) /\ pend = <<>>

\* C2: on {1,2,3,4,5} iterating squared_numbers yields exactly
\* 1, 4, 9, 16, 25 in that order, nothing missing, added or repeated.
C2_SquaredExact ==
    /\ IsPrefix(y1, <<1, 4, 9, 16, 25>>)
    /\ PastLoop1 => y1 = <<1, 4, 9, 16, 25>>

C2_Witness == pc = "L26" /\ Len(y1) = 5

\* C3: over the squared sequence {1,4,9,16,25} iterating
\* even_squared_numbers yields exactly 4, 16 in that order.
C3_EvenExact ==
    /\ IsPrefix(y2, <<4, 16>>)
    /\ PastLoop2 => y2 = <<4, 16>>

C3_Witness == pc = "L37" /\ Len(y2) = 2 /\ y1 = <<1, 4, 9, 16, 25>>

\* the squared sequence: what the transform view over numbers contains
SquaredSeq == [k \in 1..Len(numbers) |-> square(numbers[k])]

\* C4: for every finite input, negative values and duplicates included,
\* the filter stage yields exactly the even elements of its input, once per
\* occurrence and in input order; no even element gives the empty sequence.
C4_FilterExact ==
    /\ IsPrefix(y2, KeepEven(SquaredSeq))
    /\ PastLoop2 => y2 = KeepEven(SquaredSeq)
    /\ PastLoop2 /\ (\A k \in 1..Len(numbers) : ~Even(SquaredSeq[k])) => y2 = <<>>

C4_Witness ==
    /\ pc = "exit"
    /\ Len(y2) = 2 /\ y2[1] = y2[2] /\ y2[1] < 0
    /\ \E k \in 1..Len(numbers) : SquaredSeq[k] < 0 /\ ~Even(SquaredSeq[k])

\* C5 as stated: for every finite input the transform stage yields a
\* sequence of the input's length whose i-th element is input[i] * input[i].
C5_TransformAnyInput ==
    /\ Len(y1) <= Len(numbers)
    /\ \A k \in 1..Len(y1) : IsProduct(y1[k], numbers[k])
    /\ PastLoop1 => Len(y1) = Len(numbers)

\* C5 amended: for every finite input whose elements all have a square
\* representable in int, the transform stage yields a sequence of the
\* input's length whose i-th element is input[i] * input[i], in input order.
C5_TransformInRange ==
    (\A k \in 1..Len(numbers) : ~MulOverflows(numbers[k])) =>
        /\ Len(y1) <= Len(numbers)
        /\ \A k \in 1..Len(y1) : IsProduct(y1[k], numbers[k])
        /\ PastLoop1 => Len(y1) = Len(numbers)

C5_Witness ==
    /\ pc = "L26"
    /\ numbers = <<-2, 46340, -2>>
    /\ y1 = <<4, 2147395600, 4>>

\* the position filter_view::begin() finds: the first even square, or one
\* past the end
FirstEvenPos ==
    IF \E k \in 1..Len(numbers) : Even(SquaredSeq[k])
    THEN CHOOSE k \in 1..Len(numbers) :
            Even(SquaredSeq[k]) /\ \A j \in 1..(k - 1) : ~Even(SquaredSeq[j])
    ELSE Len(numbers) + 1

C6_SamePasses ==
    /\ PastLoop1 => IsPrefix(ReadByFilter, y1)
    /\ PastLoop2 => ReadByFilter = y1
    /\ \A k \in 1..Len(y2) : \E j \in 1..Len(y1) : y2[k] = y1[j]
    /\ begin_cache # 0 => begin_cache = FirstEvenPos

C7_Lengths ==
    /\ numbers = <<1, 2, 3, 4, 5>>
    /\ Len(SquaredSeq) = Len(numbers) /\ Len(numbers) = 5
    /\ Len(KeepEven(SquaredSeq)) <= Len(SquaredSeq)
    /\ Len(y1) <= Len(SquaredSeq)
    /\ PastLoop1 => Len(y1) = Len(SquaredSeq)
    /\ Len(y2) <= Len(KeepEven(SquaredSeq))
    /\ PastLoop2 => Len(y2) = Len(KeepEven(SquaredSeq))
    /\ Printed1 <= Len(y1)
    /\ Printed2 <= Len(y2)

C7_Witness == pc = "exit" /\ Printed1 = 5 /\ Printed2 = 2 /\ Len(y2) < Len(y1)

\* C8: the program always terminates, and only by returning 0: every
\* execution reaches exit with status 0, a state with no further step is
\* that one, and each print loop makes at most one pass of 5 elements.
C8_Terminates ==
    /\ <>(pc = "exit" /\ status = <<0>>)
    /\ []((~ENABLED Next) => (pc = "exit" /\ status = <<0>>))
    /\ [](status \in {<<>>, <<0>>})
    /\ [](Len(CallsAt("loop1")) <= 5 /\ Len(CallsAt("loop2")) <= 5)

C8_Witness == pc = "exit" /\ status = <<0>> /\ ~ENABLED Next

\* C9: elements are pulled on demand, in strict sequence: building either
\* view applies neither square nor the predicate, no square is computed
\* before the first label is written, and in the first loop the square of
\* element i+1 is not computed until element i has been written.
C9_OnDemand ==
    /\ (pc \in {"L19", "L22"} \/ ~IsPrefix(Label1, out)) =>
           sqLog = <<>> /\ predLog = <<>>
    /\ Positions(CallsAt("loop1")) = [k \in 1..Len(CallsAt("loop1")) |-> k]
    /\ Len(CallsAt("loop1")) <= Printed1 + 1
    /\ pc = "L24_n" => Printed1 = it - 1 /\ Len(CallsAt("loop1")) = it
    /\ pc = "L33" => predLog = <<>> /\ sqLog = CallsAt("loop1")
    /\ ~IsPrefix(Label2, Line2) => predLog = <<>> /\ sqLog = CallsAt("loop1")

C9_Witness == pc = "L24_n" /\ it = 3 /\ Printed1 = 2 /\ Len(sqLog) = 3

\* C10 as stated: the pass made through the filter applies square once per
\* source element, so two passes cost twice one pass.
C10_OncePerElement ==
    pc = "exit" =>
        /\ \A k \in 1..Len(numbers) : TimesApplied({"find_if", "loop2"}, k) = 1
        /\ Len(sqLog) = 2 * Len(numbers)

\* C10 amended: nothing is cached between passes: the first loop applies
\* square once per source element, and the pass made through the filter
\* applies it to every source element again, once when find_if tests the
\* element and once more when the loop reads an element that passed.
C10_NoCaching ==
    /\ Len(CallsAt("find_if")) = Len(predLog) + (IF pc = "find_pred" THEN 1 ELSE 0)
    /\ pc = "exit" =>
        /\ \A k \in 1..Len(numbers) :
              /\ TimesApplied({"loop1"}, k) = 1
              /\ TimesApplied({"find_if"}, k) = 1
              /\ TimesApplied({"loop2"}, k) = IF Even(SquaredSeq[k]) THEN 1 ELSE 0
        /\ Len(sqLog) = 2 * Len(numbers) + Len(y2)

C10_Witness == pc = "exit" /\ Len(sqLog) = 12 /\ Len(CallsAt("loop2")) = 2

====
